---- MODULE Spec2Model ----
(***************************************************************************)
(* Model of the partner-onboarding RAG pipeline: the chunker               *)
(* (ingest.py chunk_text), the document loader (read_txt, read_pdf,        *)
(* collect_files), the index builder (index_files) writing to the vector   *)
(* collection, and the answer path (rag.py retrieve, answer).              *)
(*                                                                         *)
(* Texts are sequences of one-character strings.  Python offsets are       *)
(* 0-based; TLA+ sequences are 1-based, so text[i : j] is                  *)
(* SubSeq(text, i + 1, min(j, len)).                                       *)
(***************************************************************************)
EXTENDS Integers, Sequences, FiniteSets, TLC

\* ---------------------------------------------------------------- constants
CHUNK_SIZE == 800
CHUNK_OVERLAP == 120

\* ------------------------------------------------------------------- bounds
MaxLen == 5          \* longest text given to the chunker on its own
MaxSize == 3         \* largest chunk size given to the chunker on its own
MaxOverlap == 3      \* largest overlap given to the chunker on its own

Whitespace == {" ", "\n", "\r", "\t"}

Min(a, b) == IF a < b THEN a ELSE b
Max(a, b) == IF a > b THEN a ELSE b

\* n copies of character c
Rep(c, n) == [k \in 1..n |-> c]

\* text[a : b] for 0 <= a
Slice(text, a, b) == SubSeq(text, a + 1, Min(b, Len(text)))

\* "not s.strip()": s is empty or whitespace only
IsBlank(s) == \A k \in 1..Len(s) : s[k] \in Whitespace

\* the advance of the offset: a sign slip that widens the stride
chunk_step_gap(size, overlap) == Max(1, size + overlap)
\* the advance of the offset without the floor of 1
chunk_step_nofloor(size, overlap) == Max(0, size - overlap)
\* i += max(1, size - overlap)
chunk_step(size, overlap) == Max(1, size - overlap)

\* chunk_text as a function of its arguments: the chunks from offset i on
RECURSIVE chunk_from(_, _, _, _)
chunk_from(text, size, overlap, i) ==
    IF i < Len(text)
    THEN LET chunk == Slice(text, i, i + size)
             rest  == chunk_from(text, size, overlap, i + chunk_step(size, overlap))
         IN  IF ~IsBlank(chunk) THEN <<chunk>> \o rest ELSE rest
    ELSE <<>>

chunk_text(text, size, overlap) == chunk_from(text, size, overlap, 0)

\* ------------------------------------------------------- document loader
\* a byte that is not valid UTF-8; open(..., errors="ignore") drops it
BadByte == "\\xff"

RECURSIVE Join(_, _)
\* sep.join(parts)
Join(parts, sep) ==
    IF Len(parts) = 0 THEN <<>>
    ELSE IF Len(parts) = 1 THEN parts[1]
    ELSE parts[1] \o sep \o Join(Tail(parts), sep)

RECURSIVE Split(_)
\* s.split("\n")
Split(s) ==
    IF \A k \in 1..Len(s) : s[k] # "\n"
    THEN <<s>>
    ELSE LET i == CHOOSE k \in 1..Len(s) :
                      s[k] = "\n" /\ \A j \in 1..(k - 1) : s[j] # "\n"
         IN  <<SubSeq(s, 1, i - 1)>> \o Split(SubSeq(s, i + 1, Len(s)))

\* line.strip()
Strip(s) ==
    IF IsBlank(s) THEN <<>>
    ELSE LET a == CHOOSE k \in 1..Len(s) :
                      s[k] \notin Whitespace /\ \A j \in 1..(k - 1) : s[j] \in Whitespace
             b == CHOOSE k \in 1..Len(s) :
                      s[k] \notin Whitespace /\ \A j \in (k + 1)..Len(s) : s[j] \in Whitespace
         IN  SubSeq(s, a, b)

\* read_txt applied to the bytes of the file
read_txt(content) ==
    LET txt   == SelectSeq(content, LAMBDA c : c # BadByte)
        lines == Split(SelectSeq(txt, LAMBDA c : c # "\r"))
    IN  Join([k \in 1..Len(lines) |-> Strip(lines[k])], <<"\n">>)

\* read_pdf applied to the pages of the document; a page is
\* [has |-> whether extract_text() returned a string, text |-> that string]
read_pdf(pages) ==
    Join([k \in 1..Len(pages) |->
             IF pages[k].has /\ pages[k].text # <<>> THEN pages[k].text ELSE <<>>],
         <<"\n">>)

\* os.path.basename(fpath), as the pair (stem, extension)
basename(f) == <<f.stem, f.ext>>

\* os.path.splitext(fpath)[1].lower(); the extensions used here are lower case
splitext_lower(f) == f.ext

\* all orders in which a directory scan may list the members of S
Perms(S) ==
    {q \in [1..Cardinality(S) -> S] : \A a, b \in 1..Cardinality(S) : q[a] = q[b] => a = b}

\* collect_files: every list the two glob patterns may return for the tree fs
collect_files(fs) ==
    {SelectSeq(t \o p, LAMBDA f : f.isfile) :
        t \in Perms({f \in fs : f.ext = ".txt"}),
        p \in Perms({f \in fs : f.ext = ".pdf"})}

VARIABLES
    ct_text, ct_size, ct_overlap,   \* arguments of the running chunk_text call
    ct_i, ct_chunks,                \* its locals i and chunks
    ct_offsets,                     \* history: the offset each kept chunk was cut at
    ct_iters,                       \* history: loop iterations executed
    ct_pc,                          \* "loop" | "done"
    collection,                     \* the records of the persistent collection
    run,                            \* number of index_files calls started
    files, fidx,                    \* argument of index_files, position of its for loop
    texts, metadatas, ids,          \* its accumulators
    reads,                          \* history: outcome of each file read of this call
    ops,                            \* history: store and file operations of this call
    added,                          \* history: arguments of collection.add in this call
    ret,                            \* value returned by index_files
    pc,                             \* "idle" | "clear" | "loop" | "done" | "raised"
    a_query, a_top_k,               \* arguments of the running answer call
    ctx_pairs,                      \* its local ctx_pairs
    a_ret,                          \* the string it returned, as a sequence of pieces
    a_pc,                           \* "idle" | "retrieved" | "done" | "raised"
    gen_calls,                      \* history: generation requests sent by this call
    gen_prompt,                     \* history: the prompt of the last request
    gen_exc                         \* history: what the generation call raised

chunkVars == <<ct_text, ct_size, ct_overlap, ct_i, ct_chunks, ct_offsets, ct_iters, ct_pc>>
ingestVars == <<collection, run, files, fidx, texts, metadatas, ids, reads, ops, added, ret, pc>>
answerVars == <<a_query, a_top_k, ctx_pairs, a_ret, a_pc, gen_calls, gen_prompt, gen_exc>>
vars == <<chunkVars, ingestVars, answerVars>>

\* no exception
NoExc == [raised |-> FALSE, mro |-> {}, text |-> ""]

\* no answer call made yet
IdleAnswer ==
    /\ a_query = ""
    /\ a_top_k = 0
    /\ ctx_pairs = <<>>
    /\ a_ret = <<>>
    /\ a_pc = "idle"
    /\ gen_calls = 0
    /\ gen_prompt = <<>>
    /\ gen_exc = NoExc

\* the index builder before its first call
IdleIndexer ==
    /\ run = 0
    /\ files = <<>>
    /\ fidx = 1
    /\ texts = <<>>
    /\ metadatas = <<>>
    /\ ids = <<>>
    /\ reads = <<>>
    /\ ops = <<>>
    /\ added = <<>>
    /\ ret = <<>>
    /\ pc = "idle"

\* an empty store and no call yet
IdleIngest == collection = {} /\ IdleIndexer

\* no chunk_text call of its own running
IdleChunk ==
    /\ ct_text = <<>>
    /\ ct_size = 1
    /\ ct_overlap = 0
    /\ ct_i = 0
    /\ ct_chunks = <<>>
    /\ ct_offsets = <<>>
    /\ ct_iters = 0
    /\ ct_pc = "done"

\* ------------------------------------------------------------ the chunker
Texts(n) == UNION {[1..m -> {"x", " "}] : m \in 0..n}

\* no terminating call runs more iterations than this
MaxIters == MaxLen + 1

InitChunk ==
    /\ ct_text \in Texts(MaxLen)
    /\ ct_size \in 1..MaxSize
    /\ ct_overlap \in (-1)..MaxOverlap
    /\ ct_i = 0
    /\ ct_chunks = <<>>
    /\ ct_offsets = <<>>
    /\ ct_iters = 0
    /\ ct_pc = "loop"
    /\ IdleIngest
    /\ IdleAnswer

\* one iteration of "while i < n"
ChunkLoop ==
    /\ ct_pc = "loop"
    /\ ct_i < Len(ct_text)
    /\ ct_iters < MaxIters
    /\ LET chunk == Slice(ct_text, ct_i, ct_i + ct_size)
       IN  IF ~IsBlank(chunk)
           THEN /\ ct_chunks' = Append(ct_chunks, chunk)
                /\ ct_offsets' = Append(ct_offsets, ct_i)
           ELSE UNCHANGED <<ct_chunks, ct_offsets>>
    /\ ct_i' = ct_i + chunk_step(ct_size, ct_overlap)
    /\ ct_iters' = ct_iters + 1
    /\ UNCHANGED <<ct_text, ct_size, ct_overlap, ct_pc>>
    /\ UNCHANGED <<ingestVars, answerVars>>

\* loop exit and "return chunks"
ChunkReturn ==
    /\ ct_pc = "loop"
    /\ ~(ct_i < Len(ct_text))
    /\ ct_pc' = "done"
    /\ UNCHANGED <<ct_text, ct_size, ct_overlap, ct_i, ct_chunks, ct_offsets, ct_iters>>
    /\ UNCHANGED <<ingestVars, answerVars>>

NextChunk == ChunkLoop \/ ChunkReturn

SpecChunk == InitChunk /\ [][NextChunk]_vars

\* the loop is sequential code: it keeps running while it can
SpecChunkFair == SpecChunk /\ WF_vars(NextChunk)

\* ---------------------------------------------------------- index builder
MaxFiles == 2        \* longest file list handed to index_files
MaxRuns == 2         \* index_files calls in one behaviour

\* the tree under data/docs/: two files with the same name in different
\* directories, a PDF, a directory whose name ends in .txt, and a file that
\* neither pattern matches
DocsTree ==
    { [dir |-> <<"docs">>,        stem |-> "faq",   ext |-> ".txt", isfile |-> TRUE],
      [dir |-> <<"docs", "sub">>, stem |-> "faq",   ext |-> ".txt", isfile |-> TRUE],
      [dir |-> <<"docs">>,        stem |-> "guide", ext |-> ".pdf", isfile |-> TRUE],
      [dir |-> <<"docs">>,        stem |-> "old",   ext |-> ".txt", isfile |-> FALSE],
      [dir |-> <<"docs">>,        stem |-> "notes", ext |-> ".md",  isfile |-> TRUE] }

\* what a .txt file may hold
TxtFiles ==
    { Rep("x", CHUNK_SIZE),
      Rep("x", 2 * CHUNK_SIZE - CHUNK_OVERLAP),
      <<" ", "x", "\r", "\n", BadByte, " ", "x", " ">>,
      <<" ", "\r", "\n", " ">> }

\* what a .pdf file may hold, page by page
PdfFiles ==
    { << [has |-> TRUE, text |-> <<"x", " ", "x">>],
         [has |-> FALSE, text |-> <<>>],
         [has |-> TRUE, text |-> <<"x">>] >>,
      << [has |-> TRUE, text |-> Rep("x", CHUNK_SIZE - CHUNK_OVERLAP) \o Rep(" ", CHUNK_OVERLAP)] >>,
      << [has |-> FALSE, text |-> <<>>] >> }

\* what the store does with an id that is already taken
AddPolicies == {"error", "overwrite", "ignore"}

\* f"{os.path.basename(fpath)}-{j}"
chunk_id(f, j) == basename(f) \o <<"-", j>>

\* collection.add(documents, metadatas, ids) by call number r, on a store
\* that treats taken ids by policy
store_add(coll, documents, metas, idlist, policy, r) ==
    LET n == Len(idlist)
        rec(k) == [id |-> idlist[k], document |-> documents[k],
                   metadata |-> metas[k], run |-> r]
        taken == {c.id : c \in coll}
    IN  IF policy = "overwrite"
        THEN {c \in coll : \A k \in 1..n : idlist[k] # c.id}
             \cup {rec(k) : k \in {a \in 1..n : \A b \in (a + 1)..n : idlist[b] # idlist[a]}}
        ELSE coll
             \cup {rec(k) : k \in {a \in 1..n : /\ idlist[a] \notin taken
                                                /\ \A b \in 1..(a - 1) : idlist[b] # idlist[a]}}

\* some id of the batch is taken, in the store or earlier in the batch
Collides(coll, idlist) ==
    \/ \E k \in 1..Len(idlist) : \E c \in coll : c.id = idlist[k]
    \/ \E a, b \in 1..Len(idlist) : a # b /\ idlist[a] = idlist[b]

InitIngest == IdleChunk /\ IdleIngest /\ IdleAnswer

\* the entry point scans the tree and calls index_files(files)
IndexStart ==
    /\ pc \in {"idle", "done", "raised"}
    /\ run < MaxRuns
    /\ \E fs \in SUBSET DocsTree : \E fl \in collect_files(fs) :
          /\ Len(fl) <= MaxFiles
          /\ files' = fl
    /\ run' = run + 1
    /\ fidx' = 1
    /\ texts' = <<>>
    /\ metadatas' = <<>>
    /\ ids' = <<>>
    /\ reads' = <<>>
    /\ ops' = <<>>
    /\ added' = <<>>
    /\ ret' = <<>>
    /\ pc' = "clear"
    /\ UNCHANGED collection
    /\ UNCHANGED <<chunkVars, answerVars>>

\* try: collection.delete(where={})  except Exception: pass
ClearStore ==
    /\ pc = "clear"
    /\ \E ok \in BOOLEAN : collection' = IF ok THEN {} ELSE collection
    /\ ops' = Append(ops, "delete")
    /\ pc' = "loop"
    /\ UNCHANGED <<run, files, fidx, texts, metadatas, ids, reads, added, ret>>
    /\ UNCHANGED <<chunkVars, answerVars>>

\* one iteration of "for fpath in files" whose read succeeds
ReadOk ==
    /\ pc = "loop"
    /\ fidx <= Len(files)
    /\ LET fpath == files[fidx]
       IN  \E raw \in IF splitext_lower(fpath) = ".pdf"
                      THEN {read_pdf(d) : d \in PdfFiles}
                      ELSE {read_txt(d) : d \in TxtFiles} :
             LET chs == chunk_text(raw, CHUNK_SIZE, CHUNK_OVERLAP)
             IN  /\ texts' = texts \o chs
                 /\ metadatas' = metadatas \o
                       [j \in 1..Len(chs) |->
                           [source |-> basename(fpath), path |-> fpath, chunk |-> j - 1]]
                 /\ ids' = ids \o [j \in 1..Len(chs) |-> chunk_id(fpath, j - 1)]
                 /\ reads' = Append(reads, [path |-> fpath, ok |-> TRUE, raw |-> raw])
    /\ ops' = Append(ops, "read")
    /\ fidx' = fidx + 1
    /\ UNCHANGED <<collection, run, files, added, ret, pc>>
    /\ UNCHANGED <<chunkVars, answerVars>>

\* a failed read that ends the call instead of skipping the file
ReadFailsAbort ==
    /\ pc = "loop"
    /\ fidx <= Len(files)
    /\ reads' = Append(reads, [path |-> files[fidx], ok |-> FALSE, raw |-> <<>>])
    /\ ops' = Append(ops, "read")
    /\ pc' = "raised"
    /\ UNCHANGED <<collection, run, files, fidx, texts, metadatas, ids, added, ret>>
    /\ UNCHANGED <<chunkVars, answerVars>>

\* one iteration whose read raises: print "[skip]" and continue
ReadFails ==
    /\ pc = "loop"
    /\ fidx <= Len(files)
    /\ reads' = Append(reads, [path |-> files[fidx], ok |-> FALSE, raw |-> <<>>])
    /\ ops' = Append(ops, "read")
    /\ fidx' = fidx + 1
    /\ UNCHANGED <<collection, run, files, texts, metadatas, ids, added, ret, pc>>
    /\ UNCHANGED <<chunkVars, answerVars>>

\* the insert issued even when nothing was accumulated
InsertAndReturnAlways ==
    /\ pc = "loop"
    /\ fidx > Len(files)
    /\ \E policy \in AddPolicies :
          /\ added' = Append(added, [documents |-> texts, metadatas |-> metadatas, ids |-> ids])
          /\ ops' = Append(ops, "add")
          /\ IF policy = "error" /\ Collides(collection, ids)
             THEN /\ pc' = "raised"
                  /\ UNCHANGED <<collection, ret>>
             ELSE /\ collection' = store_add(collection, texts, metadatas, ids, policy, run)
                  /\ ret' = <<Len(files), Len(texts)>>
                  /\ pc' = "done"
    /\ UNCHANGED <<run, files, fidx, texts, metadatas, ids, reads>>
    /\ UNCHANGED <<chunkVars, answerVars>>

\* after the loop: "if texts: collection.add(...)" and the return
InsertAndReturn ==
    /\ pc = "loop"
    /\ fidx > Len(files)
    /\ IF texts # <<>>
       THEN \E policy \in AddPolicies :
               /\ added' = Append(added, [documents |-> texts, metadatas |-> metadatas, ids |-> ids])
               /\ ops' = Append(ops, "add")
               /\ IF policy = "error" /\ Collides(collection, ids)
                  THEN /\ pc' = "raised"
                       /\ UNCHANGED <<collection, ret>>
                  ELSE /\ collection' = store_add(collection, texts, metadatas, ids, policy, run)
                       /\ ret' = <<Len(files), Len(texts)>>
                       /\ pc' = "done"
       ELSE /\ ret' = <<Len(files), Len(texts)>>
            /\ pc' = "done"
            /\ UNCHANGED <<collection, added, ops>>
    /\ UNCHANGED <<run, files, fidx, texts, metadatas, ids, reads>>
    /\ UNCHANGED <<chunkVars, answerVars>>

NextIngest == IndexStart \/ ClearStore \/ ReadOk \/ ReadFails \/ InsertAndReturn

SpecIngest == InitIngest /\ [][NextIngest]_vars

\* ------------------------------------------------------------ answer path
MaxTopK == 2         \* largest top_k handed to answer

SYSTEM_PROMPT == "You are a precise Partner Program assistant. ..."
FALLBACK == "I could not retrieve any context. Please run python ingest.py ..."
LLM_FAILED == "LLM call failed. Check that Ollama is running and OLLAMA_HOST/OLLAMA_MODEL are set.\n\n"

Queries == {"What does MDF cover?", "How do I register a deal?"}

\* what the generation service may do with one request
GenReplies ==
    { [kind |-> "refused", status |-> 0,   json |-> FALSE, has |-> FALSE, response |-> ""],
      [kind |-> "timeout", status |-> 0,   json |-> FALSE, has |-> FALSE, response |-> ""],
      [kind |-> "http",    status |-> 500, json |-> FALSE, has |-> FALSE, response |-> ""],
      [kind |-> "http",    status |-> 404, json |-> TRUE,  has |-> FALSE, response |-> ""],
      [kind |-> "http",    status |-> 200, json |-> FALSE, has |-> FALSE, response |-> ""],
      [kind |-> "http",    status |-> 200, json |-> TRUE,  has |-> FALSE, response |-> ""],
      [kind |-> "http",    status |-> 200, json |-> TRUE,  has |-> TRUE,
       response |-> "- MDF covers co-marketing funds.\nSources: faq.txt"] }

\* the records of a store that ingested file f holding text raw
Ingested(f, raw) ==
    LET chs == chunk_text(raw, CHUNK_SIZE, CHUNK_OVERLAP)
    IN  store_add({}, chs,
                  [j \in 1..Len(chs) |->
                      [source |-> basename(f), path |-> f, chunk |-> j - 1]],
                  [j \in 1..Len(chs) |-> chunk_id(f, j - 1)], "ignore", 1)

FaqTxt == [dir |-> <<"docs">>, stem |-> "faq", ext |-> ".txt", isfile |-> TRUE]
GuidePdf == [dir |-> <<"docs">>, stem |-> "guide", ext |-> ".pdf", isfile |-> TRUE]

\* stores the answer path may find: never ingested, one short file, a file
\* of CHUNK_SIZE characters, a short file and a PDF
AnswerCollections ==
    { {},
      Ingested(FaqTxt, read_txt(<<"M", "D", "F", " ", "\r", "\n", "x">>)),
      Ingested(FaqTxt, read_txt(Rep("x", CHUNK_SIZE))),
      Ingested(FaqTxt, read_txt(<<"M", "D", "F">>))
          \cup Ingested(GuidePdf, read_pdf(<< [has |-> TRUE, text |-> <<"x">>] >>)) }

\* coll.query(query_texts=[query], n_results=n): up to n records, best first;
\* the store decides the ranking
QueryResults(coll, n) ==
    {q \in UNION {[1..m -> coll] : m \in 0..Min(n, Cardinality(coll))} :
        \A a, b \in 1..Len(q) : q[a] = q[b] => a = b}

\* m.get(source, default unknown)
get_source(m) == IF "source" \in DOMAIN m THEN m.source ELSE <<"unknown">>

\* the context block: "[From <source>]:\n<chunk>" joined by "\n\n---\n"
ctx_text(pairs) ==
    Join([k \in 1..Len(pairs) |->
             <<"[From ">> \o get_source(pairs[k][2]) \o <<"]:\n">> \o pairs[k][1]],
         <<"\n\n---\n">>)

\* full_prompt
full_prompt(query, pairs) ==
    <<SYSTEM_PROMPT, "\n\n", "Context excerpts:\n">> \o ctx_text(pairs)
    \o <<"\n\n", "Question: ", query, "\n\n",
         "Answer in bullets. Then add a Sources list with the file names only.",
         "\n\nAnswer:">>

Raise(classes, text) == [ok |-> FALSE, value |-> "", exc |-> [raised |-> TRUE, mro |-> classes, text |-> text]]
Return(v) == [ok |-> TRUE, value |-> v, exc |-> NoExc]

\* _ollama_generate against a service that answers with reply
ollama_generate(prompt, reply) ==
    IF reply.kind = "refused"
    THEN Raise({"ConnectionError", "RequestException", "Exception"}, "Connection refused")
    ELSE IF reply.kind = "timeout"
    THEN Raise({"ReadTimeout", "RequestException", "Exception"}, "Read timed out.")
    ELSE IF 400 <= reply.status /\ reply.status < 600
    THEN Raise({"HTTPError", "RequestException", "Exception"},
               IF reply.status < 500 THEN "404 Client Error" ELSE "500 Server Error")
    ELSE IF ~reply.json
    THEN Raise({"JSONDecodeError", "ValueError", "Exception"}, "Expecting value")
    ELSE Return(IF reply.has THEN reply.response ELSE "")

\* a handler that catches HTTP errors only
except_http_error(e) == "HTTPError" \in e.mro
\* "except Exception as e"
except_exception(e) == "Exception" \in e.mro

\* an emptiness test that is never true
not_ctx_pairs_skipped(pairs) == FALSE
\* "if not ctx_pairs"
not_ctx_pairs(pairs) == pairs = <<>>

InitAnswer ==
    /\ IdleChunk
    /\ IdleIndexer
    /\ IdleAnswer
    /\ collection \in AnswerCollections

\* answer(query, top_k) is called and runs retrieve(query, k=top_k)
AnswerRetrieve ==
    /\ a_pc \in {"idle", "done", "raised"}
    /\ \E query \in Queries, k \in (-1)..MaxTopK :
          /\ a_query' = query
          /\ a_top_k' = k
          /\ \E res \in QueryResults(collection, Max(1, k)) :
                ctx_pairs' = [j \in 1..Len(res) |-> <<res[j].document, res[j].metadata>>]
    /\ a_ret' = <<>>
    /\ gen_calls' = 0
    /\ gen_prompt' = <<>>
    /\ gen_exc' = NoExc
    /\ a_pc' = "retrieved"
    /\ UNCHANGED <<chunkVars, ingestVars>>

\* nothing retrieved: return the fallback message
AnswerNoContext ==
    /\ a_pc = "retrieved"
    /\ not_ctx_pairs(ctx_pairs)
    /\ a_ret' = <<FALLBACK>>
    /\ a_pc' = "done"
    /\ UNCHANGED <<a_query, a_top_k, ctx_pairs, gen_calls, gen_prompt, gen_exc>>
    /\ UNCHANGED <<chunkVars, ingestVars>>

\* build the prompt, call the generation service, return its text or the
\* error message
AnswerGenerate ==
    /\ a_pc = "retrieved"
    /\ ~not_ctx_pairs(ctx_pairs)
    /\ \E reply \in GenReplies :
          LET prompt == full_prompt(a_query, ctx_pairs)
              out == ollama_generate(prompt, reply)
          IN  /\ gen_calls' = gen_calls + 1
              /\ gen_prompt' = prompt
              /\ gen_exc' = out.exc
              /\ IF out.ok
                 THEN a_ret' = <<out.value>> /\ a_pc' = "done"
                 ELSE IF except_exception(out.exc)
                 THEN a_ret' = <<LLM_FAILED, "Error: ", out.exc.text>> /\ a_pc' = "done"
                 ELSE a_ret' = <<>> /\ a_pc' = "raised"
    /\ UNCHANGED <<a_query, a_top_k, ctx_pairs>>
    /\ UNCHANGED <<chunkVars, ingestVars>>

NextAnswer == AnswerRetrieve \/ AnswerNoContext \/ AnswerGenerate

SpecAnswer == InitAnswer /\ [][NextAnswer]_vars

\* ------------------------------------------------------ chunker properties
\* the loop bound on iterations is never what stops the loop
IterationCapUnused == ct_iters <= Len(ct_text)

\* the loop computes chunk_text
LoopComputesChunkText ==
    ct_pc = "done" /\ ct_iters > 0 => ct_chunks = chunk_text(ct_text, ct_size, ct_overlap)

\* C1: for size >= 1 and 0 <= overlap < size, every non-whitespace character
\* position of the text lies inside at least one returned chunk.
C1_EveryNonWhitespaceCovered ==
    (ct_pc = "done" /\ ct_size >= 1 /\ 0 <= ct_overlap /\ ct_overlap < ct_size) =>
        \A p \in 1..Len(ct_text) :
            ct_text[p] \notin Whitespace =>
                \E k \in 1..Len(ct_chunks) :
                    /\ ct_offsets[k] < p
                    /\ p <= ct_offsets[k] + Len(ct_chunks[k])
                    /\ ct_chunks[k] =
                          SubSeq(ct_text, ct_offsets[k] + 1, ct_offsets[k] + Len(ct_chunks[k]))

\* a finished call with a valid overlap > 0 that kept several chunks and
\* dropped a whitespace-only window
C1_Witness ==
    /\ ct_pc = "done"
    /\ 0 < ct_overlap /\ ct_overlap < ct_size
    /\ Len(ct_chunks) >= 2
    /\ Len(ct_chunks) < ct_iters
    /\ \E p \in 1..Len(ct_text) : ct_text[p] \notin Whitespace

\* C9: chunk_text terminates for every text and every size >= 1, also when
\* overlap >= size: the call in progress eventually returns.
C9_Terminates == <>(ct_pc = "done")

\* a call with overlap >= size that returned after one iteration per character
C9_Witness ==
    /\ ct_pc = "done"
    /\ ct_overlap >= ct_size
    /\ Len(ct_text) >= 2
    /\ ct_iters = Len(ct_text)

\* ------------------------------------------------ index builder properties
\* the chunking windows of a text all hold a non-whitespace character
NoBlankWindow(raw) ==
    \A i \in 0..(Len(raw) - 1) :
        i % chunk_step(CHUNK_SIZE, CHUNK_OVERLAP) = 0 =>
            ~IsBlank(Slice(raw, i, i + CHUNK_SIZE))

\* this call was given one .txt file and read it
OneTextFileRead ==
    /\ pc = "done"
    /\ Len(files) = 1
    /\ splitext_lower(files[1]) = ".txt"
    /\ reads[1].ok
    /\ 0 < CHUNK_OVERLAP /\ CHUNK_OVERLAP < CHUNK_SIZE

C3_TwoWindowsTwoChunks ==
    (/\ OneTextFileRead
     /\ Len(reads[1].raw) = 2 * CHUNK_SIZE - CHUNK_OVERLAP
     /\ NoBlankWindow(reads[1].raw)) =>
        /\ Len(chunk_text(reads[1].raw, CHUNK_SIZE, CHUNK_OVERLAP)) = 2
        /\ ret = <<1, 2>>

\* C3 amended: with the configured size 800 and overlap 120, such a file
\* yields exactly 3 chunks, cut at offsets 0, size - overlap and
\* 2*(size - overlap); the third is the last CHUNK_OVERLAP characters.
C3_TwoWindowsThreeChunks ==
    (/\ OneTextFileRead
     /\ Len(reads[1].raw) = 2 * CHUNK_SIZE - CHUNK_OVERLAP
     /\ NoBlankWindow(reads[1].raw)) =>
        LET raw == reads[1].raw
            d == CHUNK_SIZE - CHUNK_OVERLAP
        IN  /\ chunk_text(raw, CHUNK_SIZE, CHUNK_OVERLAP) =
                  <<Slice(raw, 0, CHUNK_SIZE), Slice(raw, d, d + CHUNK_SIZE),
                    Slice(raw, 2 * d, 2 * d + CHUNK_SIZE)>>
            /\ Len(Slice(raw, 2 * d, 2 * d + CHUNK_SIZE)) = CHUNK_OVERLAP
            /\ texts = chunk_text(raw, CHUNK_SIZE, CHUNK_OVERLAP)
            /\ ret = <<1, 3>>

C3_Witness ==
    /\ OneTextFileRead
    /\ Len(reads[1].raw) = 2 * CHUNK_SIZE - CHUNK_OVERLAP
    /\ NoBlankWindow(reads[1].raw)
    /\ Len(added) = 1
    /\ Len(added[1].ids) = 3

\* C4: the ids handed to the bulk insert are pairwise distinct.
C4_ChunkIdsUnique ==
    \A c \in 1..Len(added) :
        \A a, b \in 1..Len(added[c].ids) :
            a # b => added[c].ids[a] # added[c].ids[b]

\* C5: after an index_files call the collection holds only records that
\* this call inserted.
C5_FullRefresh ==
    pc = "done" => \A c \in collection : c.run = run

RECURSIVE ChunksOfReads(_)
\* the (document, metadata, id) triples of the files read successfully, in order
ChunksOfReads(rs) ==
    IF rs = <<>> THEN <<>>
    ELSE LET r == Head(rs)
             chs == chunk_text(r.raw, CHUNK_SIZE, CHUNK_OVERLAP)
         IN  (IF r.ok
              THEN [j \in 1..Len(chs) |->
                       [document |-> chs[j],
                        metadata |-> [source |-> <<r.path.stem, r.path.ext>>,
                                      path |-> r.path, chunk |-> j - 1],
                        id |-> <<r.path.stem, r.path.ext, "-", j - 1>>]]
              ELSE <<>>)
             \o ChunksOfReads(Tail(rs))

\* C6: a read that raises skips that file only: when the call ends every
\* file has been tried, and what was inserted is exactly the chunks of the
\* files that were read, in file order.
C6_BadFileSkipped ==
    pc \in {"done", "raised"} =>
        LET exp == ChunksOfReads(reads)
        IN  /\ Len(reads) = Len(files)
            /\ \A k \in 1..Len(files) : reads[k].path = files[k]
            /\ texts = [k \in 1..Len(exp) |-> exp[k].document]
            /\ IF exp = <<>>
               THEN added = <<>>
               ELSE added = << [documents |-> [k \in 1..Len(exp) |-> exp[k].document],
                                metadatas |-> [k \in 1..Len(exp) |-> exp[k].metadata],
                                ids |-> [k \in 1..Len(exp) |-> exp[k].id]] >>

\* a call whose first file could not be read and whose second file was
\* read and inserted
C6_Witness ==
    /\ pc = "done"
    /\ Len(files) >= 2
    /\ ~reads[1].ok
    /\ reads[2].ok
    /\ added # <<>>
    /\ \A k \in 1..Len(added[1].metadatas) : added[1].metadatas[k].path = files[2]

\* C10: per call the store sees one clear attempt, before any file is
\* read, then at most one insert, after every file was loaded or skipped,
\* carrying all accumulated triples; no insert when nothing was accumulated.
C10_ClearThenOneInsert ==
    /\ pc \in {"loop", "done", "raised"} => ops # <<>> /\ ops[1] = "delete"
    /\ \A k \in 2..Len(ops) : ops[k] # "delete"
    /\ \A k \in 1..Len(ops) :
          ops[k] = "add" =>
              /\ k = Len(ops)
              /\ k = Len(files) + 2
              /\ \A j \in 2..(k - 1) : ops[j] = "read"
              /\ fidx = Len(files) + 1
    /\ Len(added) <= 1
    /\ Len(added) = Cardinality({k \in 1..Len(ops) : ops[k] = "add"})
    /\ added # <<>> =>
          /\ added[1] = [documents |-> texts, metadatas |-> metadatas, ids |-> ids]
          /\ texts # <<>>
    /\ pc = "done" => (added # <<>> <=> texts # <<>>)
    /\ Len(texts) = Len(metadatas) /\ Len(texts) = Len(ids)

\* a finished call over two files, one skipped, with one insert of several triples
C10_Witness ==
    /\ pc = "done"
    /\ Len(files) = 2
    /\ \E k \in 1..2 : ~reads[k].ok
    /\ ops = <<"delete", "read", "read", "add">>
    /\ Len(added[1].ids) >= 2

\* ---------------------------------------------------- answer path properties
\* C7: with nothing retrieved, answer returns the fallback message and sends
\* no generation request; a request is sent, exactly once, only when at
\* least one chunk was retrieved.
C7_NoContextNoGeneration ==
    /\ gen_calls <= 1
    /\ gen_calls = 1 => ctx_pairs # <<>>
    /\ a_pc \in {"done", "raised"} =>
          /\ ctx_pairs = <<>> => a_ret = <<FALLBACK>> /\ gen_calls = 0 /\ gen_prompt = <<>>
          /\ ctx_pairs # <<>> => gen_calls = 1 /\ a_ret # <<FALLBACK>>

\* an answer call on a store that has records, for which the query
\* returned nothing
C7_Witness ==
    /\ a_pc = "done"
    /\ ctx_pairs = <<>>
    /\ collection # {}
    /\ a_ret = <<FALLBACK>>

\* C8: when the generation call fails, answer does not raise; it returns a
\* string that contains "Error:" followed by the error text.
C8_GenerationFailureReported ==
    (a_pc \in {"done", "raised"} /\ gen_exc.raised) =>
        /\ a_pc = "done"
        /\ \E k \in 1..(Len(a_ret) - 1) : a_ret[k] = "Error: " /\ a_ret[k + 1] = gen_exc.text

\* an answer call whose generation request got HTTP 500
C8_Witness ==
    /\ a_pc = "done"
    /\ gen_exc.raised
    /\ "HTTPError" \in gen_exc.mro
    /\ gen_exc.text = "500 Server Error"
    /\ gen_calls = 1

====
